---------------------------- MODULE Spec2Model ----------------------------
(***************************************************************************)
(* A model of simplepush/__init__.py: the four entry points (send,         *)
(* send_encrypted, async_send, async_send_encrypted), the action           *)
(* validator, the payload builder, the two response handlers and the       *)
(* feedback poller.                                                        *)
(*                                                                         *)
(* One invocation of an entry point is a record ("call") holding the       *)
(* arguments, the locals that live across suspension points and a few      *)
(* history fields (how many IVs, POSTs, GETs, sleeps, callbacks).  Every   *)
(* step of the code between two suspension points is a pure operator on    *)
(* that record; the actions apply these operators to the variable `call`   *)
(* and, in the self-composed specification, to `twin`, the same call made  *)
(* through the other scheduling variant and fed the same events.           *)
(*                                                                         *)
(* The service honours the wire contract: every response body is a JSON    *)
(* object, its required keys (status, success) are present, its optional   *)
(* keys may be absent.                                                     *)
(***************************************************************************)
EXTENDS Integers, Sequences, FiniteSets, TLC

VARIABLES call, twin

vars == <<call, twin>>

---------------------------------------------------------------------------
(* Bounds of the model *)

\* longest actions list drawn as an argument
MaxActions == 2
\* largest number of feedback GETs of one call under Spec
MaxPolls == 2
\* largest number of feedback GETs of one poller run under SpecPoll
LongRun == 262
\* longest time a request takes, in seconds
MaxLatency == 1
\* the small feedback_callback_timeout drawn as an argument, in seconds
ShortTimeout == 2
\* the seconds a POST is followed while the service stays silent
MaxWait == 7
\* longest password and longest salt drawn for the key derivation
MaxKeyText == 2

(* Constants of the program *)

DEFAULT_TIMEOUT == 5
DEFAULT_FEEDBACK_TIMEOUT == 60
SALT == "1789F0B8C4A051E5"
SIMPLEPUSH_URL == "https://api.simplepush.io"

---------------------------------------------------------------------------
(* Python values: a type tag and, but for None, a value *)

PyNone == [t |-> "NoneType"]
PyStr(s) == [t |-> "str", v |-> s]
PyInt(i) == [t |-> "int", v |-> i]
PyBool(b) == [t |-> "bool", v |-> b]
PyList(q) == [t |-> "list", v |-> q]
PyDict(f) == [t |-> "dict", v |-> f]
PyFunc(f) == [t |-> "function", v |-> f]

\* bool(x)
Truthy(x) ==
    CASE x.t = "NoneType" -> FALSE
      [] x.t = "str" -> x.v # ""
      [] x.t = "int" -> x.v # 0
      [] x.t = "bool" -> x.v
      [] x.t = "list" -> Len(x.v) > 0
      [] x.t = "dict" -> DOMAIN x.v # {}
      [] OTHER -> TRUE

\* an exception instance: its class and its args; NoExc when nothing is raised
Exc(kind, args) == [kind |-> kind, args |-> args]
NoExc == Exc("none", <<>>)

\* d.update(e) on two dicts given as functions from keys
Update(d, e) ==
    [k \in DOMAIN d \cup DOMAIN e |-> IF k \in DOMAIN e THEN e[k] ELSE d[k]]

---------------------------------------------------------------------------
(* _check_actions *)

\* all('name' in el.keys() and 'url' in el.keys() for el in actions), from
\* element i on: the generator stops at the first element that fails, and
\* el.keys() raises AttributeError on an element that is no mapping
RECURSIVE AllGetActions(_, _)
AllGetActions(q, i) ==
    IF i > Len(q) THEN "True"
    ELSE IF q[i].t # "dict" THEN "AttributeError"
    ELSE IF ~("name" \in DOMAIN q[i].v /\ "url" \in DOMAIN q[i].v) THEN "False"
    ELSE AllGetActions(q, i + 1)

\* any(isinstance(el, str) for el in actions)
AllStr_Any(q) == \E i \in 1..Len(q) : q[i].t = "str"

\* all(isinstance(el, str) for el in actions)
AllStr(q) == \A i \in 1..Len(q) : q[i].t = "str"

\* the exception _check_actions raises, NoExc when it returns
CheckActions(actions) ==
    IF actions.t # "list" /\ actions.t # "NoneType"
    THEN Exc("ValueError", <<"Actions malformed">>)
    ELSE IF actions.t = "list" /\ Len(actions.v) > 0
    THEN IF actions.v[1].t = "str"
         THEN IF ~AllStr(actions.v)
              THEN Exc("ValueError", <<"Feedback actions malformed">>)
              ELSE NoExc
         ELSE LET all == AllGetActions(actions.v, 1) IN
              IF all = "AttributeError"
              THEN Exc("AttributeError", <<"object has no attribute 'keys'">>)
              ELSE IF all = "False"
              THEN Exc("ValueError", <<"Get actions malformed">>)
              ELSE NoExc
    ELSE NoExc

---------------------------------------------------------------------------
(* The encryption engine, with the primitives kept abstract: a digest, a   *)
(* padding and a cipher are injective constructors of terms                *)

\* hashlib.sha1(data).hexdigest(): the hex digits of the 160-bit digest of
\* data, kept as the digest's leading digits and their number
Sha1HexDigest(data) == [sha1 |-> data, digits |-> 160 \div 4]

\* hex_str[0:stop]
HexPrefix(hex_str, stop) ==
    [hex_str EXCEPT !.digits = IF stop < @ THEN stop ELSE @]

\* bytes(bytearray.fromhex(hex_str)): one byte for two hex digits
FromHex(hex_str) == [sha1 |-> hex_str.sha1, bytes |-> hex_str.digits \div 2]

\* a key derivation that salts every password with the legacy constant
GenerateEncryptionKey_IgnoresSalt(password, salt) ==
    LET salted_password == password.v \o SALT
        hex_str == HexPrefix(Sha1HexDigest(salted_password), 32)
    IN  FromHex(hex_str)

GenerateEncryptionKey(password, salt) ==
    LET salted_password == IF Truthy(salt) THEN password.v \o salt.v
                           ELSE password.v \o SALT
        hex_str == HexPrefix(Sha1HexDigest(salted_password), 32)
    IN  FromHex(hex_str)

\* base64.urlsafe_b64encode(AES-CBC(key, iv, PKCS7(data)))
Encrypt(encryption_key, iv, data) ==
    [t |-> "str",
     b64 |-> [key |-> encryption_key, iv |-> iv, pkcs7 |-> data.v]]

\* the hex digits of the IV, upper case
IvHex(iv) == [t |-> "str", hexupper |-> iv]

---------------------------------------------------------------------------
(* _generate_payload *)

\* a payload builder that encrypts the message and leaves the title as it is
GeneratePayload_PlainTitle(key, title, message, event, actions, password, salt, iv) ==
    LET p0 == [key |-> key]
        p1 == IF ~Truthy(password)
              THEN LET a == Update(p0, [msg |-> message])
                       b == IF Truthy(title) THEN Update(a, [title |-> title]) ELSE a
                   IN  IF Truthy(event) THEN Update(b, [event |-> event]) ELSE b
              ELSE LET encryption_key == GenerateEncryptionKey(password, salt)
                       a == Update(p0, [encrypted |-> PyStr("true"), iv |-> IvHex(iv)])
                       b == IF Truthy(title) THEN Update(a, [title |-> title]) ELSE a
                       c == IF Truthy(event) THEN Update(b, [event |-> event]) ELSE b
                   IN  Update(c, [msg |-> Encrypt(encryption_key, iv, message)])
    IN  PyDict(IF Truthy(actions) THEN Update(p1, [actions |-> actions]) ELSE p1)

GeneratePayload(key, title, message, event, actions, password, salt, iv) ==
    LET p0 == [key |-> key]
        p1 == IF ~Truthy(password)
              THEN LET a == Update(p0, [msg |-> message])
                       b == IF Truthy(title) THEN Update(a, [title |-> title]) ELSE a
                   IN  IF Truthy(event) THEN Update(b, [event |-> event]) ELSE b
              ELSE LET encryption_key == GenerateEncryptionKey(password, salt)
                       a == Update(p0, [encrypted |-> PyStr("true"), iv |-> IvHex(iv)])
                       b == IF Truthy(title)
                            THEN Update(a, [title |-> Encrypt(encryption_key, iv, title)])
                            ELSE a
                       c == IF Truthy(event) THEN Update(b, [event |-> event]) ELSE b
                   IN  Update(c, [msg |-> Encrypt(encryption_key, iv, message)])
    IN  PyDict(IF Truthy(actions) THEN Update(p1, [actions |-> actions]) ELSE p1)

---------------------------------------------------------------------------
(* One invocation of an entry point *)

Variants == {"send", "send_encrypted", "async_send", "async_send_encrypted"}
IsAsync(variant) == variant \in {"async_send", "async_send_encrypted"}
IsEncrypted(variant) == variant \in {"send_encrypted", "async_send_encrypted"}

\* the same call through the other scheduling variant
Counterpart(variant) ==
    CASE variant = "send" -> "async_send"
      [] variant = "async_send" -> "send"
      [] variant = "send_encrypted" -> "async_send_encrypted"
      [] variant = "async_send_encrypted" -> "send_encrypted"

NoResponse == [kind |-> "none"]
NoTwin == [pc |-> "none"]

\* before any entry point is called
Idle ==
    [pc |-> "idle", variant |-> "none",
     key |-> PyNone, message |-> PyNone, title |-> PyNone, event |-> PyNone,
     actions |-> PyNone, password |-> PyNone, salt |-> PyNone,
     feedback_callback |-> PyNone, feedback_callback_timeout |-> PyNone,
     exc |-> NoExc, payload |-> PyNone, response |-> NoResponse,
     resp |-> NoResponse,
     sessions |-> {}, opened |-> 0, ivs |-> 0, posts |-> 0,
     poller |-> "not_started", feedback_id |-> PyNone,
     stop |-> FALSE, n |-> 0, start |-> 0, now |-> 0,
     polls |-> 0, pending |-> 0, sleeps |-> 0, sleep |-> 0,
     callbacks |-> <<>>, waited |-> 0]

\* the frame of an entry point just called with arguments a
NewCall(variant, a) ==
    [Idle EXCEPT !.pc = "entered", !.variant = variant,
                 !.key = a.key, !.message = a.message, !.title = a.title,
                 !.event = a.event, !.actions = a.actions,
                 !.password = IF IsEncrypted(variant) THEN a.password ELSE PyNone,
                 !.salt = IF IsEncrypted(variant) THEN a.salt ELSE PyNone,
                 !.feedback_callback = a.feedback_callback,
                 !.feedback_callback_timeout = a.feedback_callback_timeout]

\* an exception leaves the entry point: the call is over
Raise(c, e) == [c EXCEPT !.pc = "done", !.exc = e]

\* the entry point returns
Return(c) == [c EXCEPT !.pc = "done"]

\* a ClientSession is created and entered (async with ... as session)
OpenSession(c, s) ==
    [c EXCEPT !.sessions = @ \cup {s}, !.opened = @ + 1]

\* a session that is created without a with block: leaving closes nothing
CloseSession_Leaks(c, s) == c

\* the async with block of session s is left, normally or by an exception
CloseSession(c, s) == [c EXCEPT !.sessions = @ \ {s}]

\* the argument checks alone, _check_actions left out
Validate_SkipsActions(c) ==
    IF ~Truthy(c.key) \/ ~Truthy(c.message)
       \/ (IsEncrypted(c.variant) /\ ~Truthy(c.password))
    THEN Raise(c, Exc("ValueError", <<"Key and message argument must be set">>))
    ELSE [c EXCEPT !.pc = "validated"]

\* the argument checks of the entry point, then _check_actions
Validate(c) ==
    IF ~Truthy(c.key) \/ ~Truthy(c.message)
       \/ (IsEncrypted(c.variant) /\ ~Truthy(c.password))
    THEN Raise(c, Exc("ValueError",
                      IF IsEncrypted(c.variant)
                      THEN <<"Key, message and password arguments must be set">>
                      ELSE <<"Key and message argument must be set">>))
    ELSE LET e == CheckActions(c.actions) IN
         IF e # NoExc THEN Raise(c, e) ELSE [c EXCEPT !.pc = "validated"]

\* payload = _generate_payload(...); the IV is drawn only on the password path
BuildPayload(c, iv) ==
    [c EXCEPT !.pc = "payload_built",
              !.payload = GeneratePayload(c.key, c.title, c.message, c.event,
                                          c.actions, c.password, c.salt, iv),
              !.ivs = IF Truthy(c.password) THEN @ + 1 ELSE @]

\* the POST to /send is issued: requests.post opens a session of its own and
\* closes it when it returns or raises; the async variants enter a ClientSession
Post(c) ==
    [OpenSession(c, IF IsAsync(c.variant) THEN "send" ELSE "requests")
        EXCEPT !.pc = "await_post", !.posts = @ + 1]

\* the timeout the POST is given: requests.post(..., timeout=DEFAULT_TIMEOUT) in
\* send and send_encrypted; ClientSession(raise_for_status=True) and
\* session.post(url, json=payload) in the async variants name no timeout
PostTimeout(variant) ==
    IF IsAsync(variant) THEN PyNone ELSE PyInt(DEFAULT_TIMEOUT)

\* one more second passes with no byte of a response to the POST: a POST
\* given a timeout ends with requests.exceptions.Timeout when that many
\* seconds have passed, a POST given none goes on waiting
OnPostSilence(c) ==
    LET c1 == [c EXCEPT !.now = @ + 1, !.waited = @ + 1]
        timeout == PostTimeout(c.variant)
    IN  IF timeout # PyNone /\ c1.waited >= timeout.v
        THEN Raise(CloseSession(c1, "requests"), Exc("RequestException", <<"Timeout">>))
        ELSE c1

---------------------------------------------------------------------------
(* _query_feedback_endpoint *)

\* the sleep chosen by the schedule keyed on n
SleepFor(n) == IF n < 60 THEN 1 ELSE IF n < 260 THEN 3 ELSE 5

\* response.raise_for_status(), the last line of _handle_response
RaiseForStatus(c) ==
    IF c.response.status_code >= 400
    THEN Raise(c, Exc("HTTPError", <<ToString(c.response.status_code)>>))
    ELSE Return(c)

\* what follows the await of the poller, or the skipped if, in the handler:
\* _handle_response ends with raise_for_status; _handle_response_aio returns
\* and the async with block of the entry point is left
AfterHandler(c) ==
    IF IsAsync(c.variant) THEN Return(CloseSession(c, "send"))
    ELSE RaiseForStatus(c)

\* an exception raised in a handler or in the poller reaches the entry point;
\* in the async variants it leaves the async with block on its way
Propagate(c, e) ==
    IF IsAsync(c.variant) THEN Raise(CloseSession(c, "send"), e)
    ELSE Raise(c, e)

\* the poller is left by an exception: its async with block is left first
PollerRaises(c, e, state) ==
    Propagate([CloseSession(c, "feedback") EXCEPT !.poller = state], e)

\* a poller that forgets stop = True: the loop goes on to the next GET
PollerReturns_KeepsLooping(c) == [c EXCEPT !.pc = "requesting", !.polls = @ + 1]

\* the loop ends (stop is set) and the poller returns to the handler
PollerReturns(c) ==
    AfterHandler([CloseSession(c, "feedback") EXCEPT !.poller = "RESOLVED"])

\* session.get(...) is issued at the head of the loop
IssueGet(c) == [c EXCEPT !.pc = "requesting", !.polls = @ + 1]

\* the poller is entered: its locals, its session, the first GET
StartPoller(c, feedback_id) ==
    IssueGet([OpenSession(c, "feedback")
                EXCEPT !.poller = "POLLING", !.feedback_id = feedback_id,
                       !.stop = FALSE, !.n = 0, !.start = c.now])

\* resp.ok or json['success']
FeedbackOk_Or(r) == r.status_code < 400 \/ Truthy(r.json.success)

\* resp.ok and json['success']
FeedbackOk(r) == r.status_code < 400 /\ Truthy(r.json.success)

\* a timeout check that measures from the end of the first sleep
TimedOut_Late(c) ==
    /\ Truthy(c.feedback_callback_timeout)
    /\ c.now > c.start + c.feedback_callback_timeout.v + 1

\* if timeout: now = time.time(); if now > start + timeout
TimedOut(c) ==
    /\ Truthy(c.feedback_callback_timeout)
    /\ c.now > c.start + c.feedback_callback_timeout.v

\* the body of the loop on the response r to the GET, which took d seconds
OnFeedbackResponse(c, r, d) ==
    LET c1 == [c EXCEPT !.now = @ + d, !.resp = r]
        json == r.json
    IN
    IF r.kind = "error"
    THEN PollerRaises(c1, Exc("ClientConnectionError", <<>>), "ABORTED")
    ELSE IF FeedbackOk(r)
    THEN IF "action_selected" \notin DOMAIN json
         THEN PollerRaises(c1, Exc("KeyError", <<"action_selected">>), "ABORTED")
         ELSE IF Truthy(json.action_selected)
         THEN LET c2 == [c1 EXCEPT !.stop = TRUE] IN
              IF "action_selected_at" \notin DOMAIN json
              THEN PollerRaises(c2, Exc("KeyError", <<"action_selected_at">>), "ABORTED")
              ELSE IF "action_delivered_at" \notin DOMAIN json
              THEN PollerRaises(c2, Exc("KeyError", <<"action_delivered_at">>), "ABORTED")
              ELSE PollerReturns(
                     [c2 EXCEPT !.callbacks =
                        Append(@, <<json.action_selected, json.action_selected_at,
                                    json.action_delivered_at, c.feedback_id>>)])
         ELSE LET c2 == [c1 EXCEPT !.pending = @ + 1] IN
              IF TimedOut(c2)
              THEN PollerRaises([c2 EXCEPT !.stop = TRUE],
                                Exc("FeedbackActionTimeout",
                                    <<"Feedback Action ID: ", c.feedback_id.v>>),
                                "TIMED_OUT")
              ELSE [c2 EXCEPT !.pc = "sleeping", !.sleep = SleepFor(c.n),
                              !.sleeps = @ + 1]
    ELSE PollerRaises([c1 EXCEPT !.stop = TRUE],
                      Exc("FeedbackActionError", <<"Failed to reach feedback API.">>),
                      "FAILED")

\* a sleep that is cut short by the timeout: the deadline is looked at as the
\* sleep returns
OnWake_Preempts(c) ==
    LET c1 == [c EXCEPT !.now = @ + c.sleep] IN
    IF TimedOut(c1)
    THEN PollerRaises([c1 EXCEPT !.stop = TRUE],
                      Exc("FeedbackActionTimeout",
                          <<"Feedback Action ID: ", c.feedback_id.v>>),
                      "TIMED_OUT")
    ELSE IF ~c1.stop THEN IssueGet(c1) ELSE PollerReturns(c1)

\* asyncio.sleep returns: the loop condition is read and the next GET issued
OnWake(c) ==
    LET c1 == [c EXCEPT !.now = @ + c.sleep] IN
    IF ~c1.stop THEN IssueGet(c1) ELSE PollerReturns(c1)

---------------------------------------------------------------------------
(* _handle_response and _handle_response_aio *)

\* a handler that polls for every feedbackId, callback or not
HandleEnvelope_IgnoresCallback(c, json) ==
    IF json.status # PyStr("OK")
    THEN Propagate(c, Exc("UnknownError", <<>>))
    ELSE IF "feedbackId" \in DOMAIN json
    THEN StartPoller(c, json.feedbackId)
    ELSE AfterHandler(c)

\* the body both handlers share, on the decoded envelope
HandleEnvelope(c, json) ==
    IF json.status = PyStr("BadRequest") /\ "message" \notin DOMAIN json
    THEN Propagate(c, Exc("KeyError", <<"message">>))
    ELSE IF json.status = PyStr("BadRequest")
            /\ json.message = PyStr("Title or message too long")
    THEN Propagate(c, Exc("BadRequest", <<>>))
    ELSE IF json.status # PyStr("OK")
    THEN Propagate(c, Exc("UnknownError", <<>>))
    ELSE IF "feedbackId" \in DOMAIN json /\ c.feedback_callback # PyNone
    THEN StartPoller(c, json.feedbackId)
    ELSE AfterHandler(c)

\* _handle_response(response, ...), run by asyncio.run
HandleResponse(c) == HandleEnvelope(c, c.response.json)

\* _handle_response_aio(await resp.json(), ...)
HandleResponseAio(c) == HandleEnvelope(c, c.response.json)

\* the POST ends after d seconds, with the response r or with a transport error
OnPostResponse(c, r, d) ==
    LET c1 == [c EXCEPT !.now = @ + d, !.response = r] IN
    IF IsAsync(c.variant)
    THEN IF r.kind = "error"
         THEN Propagate(c1, Exc("ClientConnectionError", <<>>))
         ELSE IF r.status_code >= 400
         THEN Propagate(c1, Exc("ClientResponseError", <<ToString(r.status_code)>>))
         ELSE HandleResponseAio(c1)
    ELSE IF r.kind = "error"
         THEN Raise(CloseSession(c1, "requests"), Exc("RequestException", <<>>))
         ELSE HandleResponse(CloseSession(c1, "requests"))

---------------------------------------------------------------------------
(* The inputs: arguments, random bytes, and what the service answers *)

SeqsUpTo(S, n) == UNION {[1..k -> S] : k \in 0..n}

ActionElems ==
    {PyStr("a"),
     PyDict([name |-> PyStr("n"), url |-> PyStr("u")]),
     PyDict([name |-> PyStr("n")]),
     PyDict([url |-> PyStr("u")]),
     PyInt(7)}

ActionsArgs ==
    {PyNone, PyStr("not-a-list")}
    \cup {PyList(q) : q \in SeqsUpTo(ActionElems, MaxActions)}

Timeouts == {PyNone, PyInt(ShortTimeout)}

Args ==
    [key : {PyNone, PyStr("k")},
     message : {PyStr(""), PyStr("m")},
     title : {PyNone, PyStr("T")},
     event : {PyNone, PyStr("e")},
     actions : ActionsArgs,
     password : {PyNone, PyStr("pw")},
     salt : {PyNone, PyStr("s")},
     feedback_callback : {PyNone, PyFunc("cb")},
     feedback_callback_timeout : Timeouts]

\* os.urandom(16)
IVs == {"iv1", "iv2"}

Latencies == 0..MaxLatency

TransportError == [kind |-> "error"]
HttpResponse(status_code, json) ==
    [kind |-> "response", status_code |-> status_code, json |-> json]

\* {status, message?, feedbackId?}
SendEnvelopes ==
    LET Statuses == {PyStr("OK"), PyStr("BadRequest"), PyStr("Error")}
        Messages == {PyStr("Title or message too long"), PyStr("other")}
    IN  {[status |-> s] : s \in Statuses}
        \cup {[status |-> s, message |-> m] : s \in Statuses, m \in Messages}
        \cup {[status |-> s, feedbackId |-> PyStr("abc")] : s \in Statuses}
        \cup {[status |-> s, message |-> m, feedbackId |-> PyStr("abc")] :
                s \in Statuses, m \in Messages}

SendResponses ==
    {TransportError}
    \cup {HttpResponse(sc, j) : sc \in {200, 400}, j \in SendEnvelopes}

\* {success, action_selected?, action_selected_at?, action_delivered_at?}
FeedbackBodies ==
    {[success |-> PyBool(FALSE)],
     [success |-> PyBool(TRUE)],
     [success |-> PyBool(TRUE), action_selected |-> PyNone,
      action_selected_at |-> PyNone, action_delivered_at |-> PyNone],
     [success |-> PyBool(TRUE), action_selected |-> PyStr("")],
     [success |-> PyBool(TRUE), action_selected |-> PyStr("yes")],
     [success |-> PyBool(TRUE), action_selected |-> PyStr("yes"),
      action_selected_at |-> PyInt(100)],
     [success |-> PyBool(TRUE), action_selected |-> PyStr("yes"),
      action_selected_at |-> PyInt(100), action_delivered_at |-> PyInt(90)],
     [success |-> PyBool(TRUE), action_selected |-> PyStr("no"),
      action_selected_at |-> PyInt(200), action_delivered_at |-> PyInt(190)]}

\* what a failing service answers
ErrorBodies ==
    {[success |-> PyBool(FALSE)],
     [success |-> PyBool(TRUE), action_selected |-> PyStr("yes"),
      action_selected_at |-> PyInt(100), action_delivered_at |-> PyInt(90)]}

FeedbackResponses ==
    {TransportError}
    \cup {HttpResponse(200, j) : j \in FeedbackBodies}
    \cup {HttpResponse(500, j) : j \in ErrorBodies}

---------------------------------------------------------------------------
(* The actions.  An event is delivered to the call and, when there is one, *)
(* to its twin: each takes the step if it waits at one of the places pcs.  *)

Waits(pcs) == call.pc \in pcs \/ twin.pc \in pcs

Moved(c, Step(_), pcs) == IF c.pc \in pcs THEN Step(c) ELSE c

\* the twin of a call just made, when the specification runs one
TwinOf(variant, a) ==
    IF twin = NoTwin THEN NoTwin ELSE Validate(NewCall(Counterpart(variant), a))

\* an entry point is called and runs to the end of its validation
Send ==
    /\ call.pc = "idle"
    /\ \E a \in Args :
         /\ call' = Validate(NewCall("send", a))
         /\ twin' = TwinOf("send", a)

SendEncrypted ==
    /\ call.pc = "idle"
    /\ \E a \in Args :
         /\ call' = Validate(NewCall("send_encrypted", a))
         /\ twin' = TwinOf("send_encrypted", a)

AsyncSend ==
    /\ call.pc = "idle"
    /\ \E a \in Args :
         /\ call' = Validate(NewCall("async_send", a))
         /\ twin' = TwinOf("async_send", a)

AsyncSendEncrypted ==
    /\ call.pc = "idle"
    /\ \E a \in Args :
         /\ call' = Validate(NewCall("async_send_encrypted", a))
         /\ twin' = TwinOf("async_send_encrypted", a)

\* the payload is built
PayloadStep ==
    /\ Waits({"validated"})
    /\ \E iv \in IVs :
         /\ call' = Moved(call, LAMBDA c : BuildPayload(c, iv), {"validated"})
         /\ twin' = Moved(twin, LAMBDA c : BuildPayload(c, iv), {"validated"})

\* the POST is issued
PostStep ==
    /\ Waits({"payload_built"})
    /\ call' = Moved(call, Post, {"payload_built"})
    /\ twin' = Moved(twin, Post, {"payload_built"})

\* the POST ends and the response is handled, up to the first GET
PostResponse ==
    /\ Waits({"await_post"})
    /\ \E r \in SendResponses, d \in Latencies :
         /\ call' = Moved(call, LAMBDA c : OnPostResponse(c, r, d), {"await_post"})
         /\ twin' = Moved(twin, LAMBDA c : OnPostResponse(c, r, d), {"await_post"})

\* a second passes and the service has not answered the POST, within the
\* horizon of MaxWait seconds that the model follows
PostSilence ==
    /\ Waits({"await_post"})
    /\ call.pc = "await_post" => call.waited < MaxWait
    /\ twin.pc = "await_post" => twin.waited < MaxWait
    /\ call' = Moved(call, OnPostSilence, {"await_post"})
    /\ twin' = Moved(twin, OnPostSilence, {"await_post"})

\* a GET of the poller ends and one pass of the loop body runs
FeedbackResponse ==
    /\ Waits({"requesting"})
    /\ \E r \in FeedbackResponses, d \in Latencies :
         /\ call' = Moved(call, LAMBDA c : OnFeedbackResponse(c, r, d), {"requesting"})
         /\ twin' = Moved(twin, LAMBDA c : OnFeedbackResponse(c, r, d), {"requesting"})

\* a sleep of the poller ends, while the model's budget of GETs lasts
Wake ==
    /\ Waits({"sleeping"})
    /\ call.pc = "sleeping" => call.polls < MaxPolls
    /\ twin.pc = "sleeping" => twin.polls < MaxPolls
    /\ call' = Moved(call, OnWake, {"sleeping"})
    /\ twin' = Moved(twin, OnWake, {"sleeping"})

\* the same, with the budget of the long runs
WakeLong ==
    /\ Waits({"sleeping"})
    /\ call.pc = "sleeping" => call.polls < LongRun
    /\ twin.pc = "sleeping" => twin.polls < LongRun
    /\ call' = Moved(call, OnWake, {"sleeping"})
    /\ twin' = Moved(twin, OnWake, {"sleeping"})

---------------------------------------------------------------------------
(* The specifications *)

\* one call of any entry point
Init == call = Idle /\ twin = NoTwin

Next ==
    \/ Send
    \/ SendEncrypted
    \/ AsyncSend
    \/ AsyncSendEncrypted
    \/ PayloadStep
    \/ PostStep
    \/ PostResponse
    \/ FeedbackResponse
    \/ Wake

Spec == Init /\ [][Next]_vars

\* the same call through the blocking and the suspendable entry point, both
\* given the same arguments, random bytes, responses and latencies
InitTwin == call = Idle /\ twin = Idle

SpecTwin == InitTwin /\ [][Next]_vars

\* the feedback poller alone, over long runs: a call that was accepted and
\* answered {"status": "OK", "feedbackId": "abc"} has just entered the poller
PollTimeouts == {PyInt(0), PyInt(ShortTimeout), PyInt(DEFAULT_FEEDBACK_TIMEOUT)}

PollArgs(timeout) ==
    [key |-> PyStr("k"), message |-> PyStr("m"), title |-> PyNone,
     event |-> PyNone, actions |-> PyNone, password |-> PyNone, salt |-> PyNone,
     feedback_callback |-> PyFunc("cb"), feedback_callback_timeout |-> timeout]

InitPoll ==
    /\ \E timeout \in PollTimeouts :
         call = OnPostResponse(
                  Post(BuildPayload(Validate(NewCall("send", PollArgs(timeout))),
                                    "iv1")),
                  HttpResponse(200, [status |-> PyStr("OK"), feedbackId |-> PyStr("abc")]),
                  0)
    /\ twin = NoTwin

NextPoll ==
    \/ FeedbackResponse
    \/ WakeLong

SpecPoll == InitPoll /\ [][NextPoll]_vars

\* the POST of each entry point has just been issued, and the service may
\* stay silent
WaitArgs ==
    [key |-> PyStr("k"), message |-> PyStr("m"), title |-> PyNone,
     event |-> PyNone, actions |-> PyNone, password |-> PyStr("pw"),
     salt |-> PyNone, feedback_callback |-> PyFunc("cb"),
     feedback_callback_timeout |-> PyInt(ShortTimeout)]

InitWait ==
    /\ \E variant \in Variants :
         call = Post(BuildPayload(Validate(NewCall(variant, WaitArgs)), "iv1"))
    /\ twin = NoTwin

NextWait ==
    \/ PostSilence
    \/ PostResponse
    \/ FeedbackResponse
    \/ Wake

SpecWait == InitWait /\ [][NextWait]_vars

\* _generate_encryption_key alone, called with a password and a salt
RECURSIVE Texts(_)
Texts(n) ==
    IF n = 0 THEN {""}
    ELSE Texts(n - 1) \cup {s \o c : s \in Texts(n - 1), c \in {"a", "b"}}

KeyPasswords == {PyStr(s) : s \in Texts(MaxKeyText) \ {""}}
KeySalts == {PyNone, PyStr(SALT)} \cup {PyStr(s) : s \in Texts(MaxKeyText)}

InitKey ==
    /\ \E password \in KeyPasswords, salt \in KeySalts :
         call = [pc |-> "key_args", password |-> password, salt |-> salt,
                 encryption_key |-> PyNone]
    /\ twin = NoTwin

DeriveKey ==
    /\ call.pc = "key_args"
    /\ call' = [call EXCEPT
                  !.pc = "key_derived",
                  !.encryption_key = GenerateEncryptionKey(call.password, call.salt)]
    /\ UNCHANGED twin

NextKey == DeriveKey

SpecKey == InitKey /\ [][NextKey]_vars

---------------------------------------------------------------------------
(* What the claims speak of *)

Done(c) == c.pc = "done"
ReturnedNormally(c) == c.pc = "done" /\ c.exc = NoExc
Has(json, k) == k \in DOMAIN json

\* a poll response that reports a selected action, with its two timestamps
Resolving(r) ==
    /\ r.kind = "response"
    /\ r.status_code < 400
    /\ Truthy(r.json.success)
    /\ Has(r.json, "action_selected") /\ Truthy(r.json.action_selected)
    /\ Has(r.json, "action_selected_at") /\ Has(r.json, "action_delivered_at")

\* a poll response that reports success and a falsy action_selected
Pending(r) ==
    /\ r.kind = "response"
    /\ r.status_code < 400
    /\ Truthy(r.json.success)
    /\ Has(r.json, "action_selected") /\ ~Truthy(r.json.action_selected)

\* a poll response with a non-success HTTP status or success = false
Failing(r) ==
    /\ r.kind = "response"
    /\ r.status_code >= 400 \/ ~Truthy(r.json.success)

\* the /send response was HTTP 2xx, {"status": "OK", "feedbackId": ...}
AnsweredOkWithFeedbackId(c) ==
    /\ c.response.kind = "response"
    /\ c.response.status_code < 400
    /\ c.response.json.status = PyStr("OK")
    /\ Has(c.response.json, "feedbackId")

---------------------------------------------------------------------------
C2_SleepFollowsIterations ==
    call.pc = "sleeping"
    => call.sleep = (IF call.pending - 1 < 60 THEN 1
                     ELSE IF call.pending - 1 < 260 THEN 3 ELSE 5)

(* C3: with a truthy timeout, a pending response handled when the time     *)
(* since the poller started exceeds the timeout ends the call with         *)
(* FeedbackActionTimeout: the callback was never invoked, no sleep and no  *)
(* GET follow that response.                                               *)
C3_TimeoutRaises ==
    (/\ call.pc # "requesting"
     /\ Pending(call.resp)
     /\ Truthy(call.feedback_callback_timeout)
     /\ call.now > call.start + call.feedback_callback_timeout.v)
    => /\ Done(call)
       /\ call.exc.kind = "FeedbackActionTimeout"
       /\ call.poller = "TIMED_OUT"
       /\ call.callbacks = <<>>
       /\ call.sleeps = call.pending - 1
       /\ call.polls = call.pending

\* timed out on the third pending response
C3_Witness ==
    /\ Done(call) /\ call.exc.kind = "FeedbackActionTimeout"
    /\ Pending(call.resp) /\ call.pending = 3
    /\ call.now > call.start + call.feedback_callback_timeout.v

(* C4: a poll response with a non-success HTTP status or with              *)
(* success = false ends the call with FeedbackActionError, whatever number *)
(* of pending iterations came before: the callback was not invoked, no     *)
(* sleep and no GET follow that response.                                  *)
C4_FailedPollRaises ==
    Failing(call.resp)
    => /\ Done(call)
       /\ call.exc.kind = "FeedbackActionError"
       /\ call.poller = "FAILED"
       /\ call.callbacks = <<>>
       /\ call.polls = call.pending + 1
       /\ call.sleeps = call.pending

\* failed on a non-success HTTP status after two pending responses
C4_Witness ==
    /\ Done(call) /\ call.exc.kind = "FeedbackActionError"
    /\ Failing(call.resp) /\ call.resp.status_code >= 400
    /\ call.pending = 2

(* C5: a /send response whose envelope status is not "OK" ends the send   *)
(* with BadRequest exactly when status is "BadRequest" and message is      *)
(* "Title or message too long" (message may be absent), with UnknownError  *)
(* in every other case; no GET is issued and the callback is not invoked.  *)
C5_NonOkEnvelope ==
    (call.response.kind = "response" /\ call.response.json.status # PyStr("OK"))
    => /\ Done(call)
       /\ call.exc.kind =
            (IF /\ call.response.json.status = PyStr("BadRequest")
                /\ Has(call.response.json, "message")
                /\ call.response.json.message = PyStr("Title or message too long")
             THEN "BadRequest" ELSE "UnknownError")
       /\ call.polls = 0
       /\ call.callbacks = <<>>

\* the error kinds of the design: the HTTP collaborators' own errors are
\* transport errors
ErrorKind(e) ==
    IF e.kind \in {"RequestException", "HTTPError", "ClientConnectionError",
                   "ClientResponseError"}
    THEN "TransportError" ELSE e.kind

(* C6: the blocking and the suspendable entry point, given the same        *)
(* arguments, the same /send response and the same poll responses, end in  *)
(* the same outcome: the same error kind, or a normal return, and the same *)
(* callback invocations.                                                   *)
C6_SameOutcome ==
    (Done(call) /\ Done(twin))
    => /\ ErrorKind(call.exc) = ErrorKind(twin.exc)
       /\ call.callbacks = twin.callbacks

\* actions as the validator is meant to accept them
WellFormed(actions) ==
    \/ actions = PyNone
    \/ /\ actions.t = "list"
       /\ \/ \A i \in 1..Len(actions.v) : actions.v[i].t = "str"
          \/ \A i \in 1..Len(actions.v) :
               /\ actions.v[i].t = "dict"
               /\ {"name", "url"} \subseteq DOMAIN actions.v[i].v

\* key, message and, for the encrypted variants, password are all set
ArgsSet(c) ==
    /\ Truthy(c.key) /\ Truthy(c.message)
    /\ IsEncrypted(c.variant) => Truthy(c.password)

\* the call ended in its validation
Rejected(c) == Done(c) /\ c.exc.kind \in {"ValueError", "AttributeError"}

(* C7: in all four entry points a call whose key or message (or password,  *)
(* for the encrypted variants) is missing or empty, or whose actions are   *)
(* malformed, raises with no payload built, no IV generated, no session    *)
(* opened, no POST sent and no callback invoked.                           *)
C7_FailsFast ==
    (call.pc # "idle" /\ (~ArgsSet(call) \/ ~WellFormed(call.actions)))
    => /\ Rejected(call)
       /\ call.payload = PyNone
       /\ call.ivs = 0
       /\ call.opened = 0
       /\ call.posts = 0
       /\ call.polls = 0
       /\ call.callbacks = <<>>

\* an encrypted call with everything set but mixed actions
C7_Witness ==
    /\ Rejected(call) /\ call.variant = "async_send_encrypted"
    /\ ArgsSet(call) /\ ~WellFormed(call.actions)
    /\ call.actions.t = "list" /\ Len(call.actions.v) = 2

(* C8: a GET of the feedback endpoint is issued only after a /send         *)
(* response with status "OK" and a feedbackId, to a call given a callback; *)
(* and a call that polled is not over while its poller is still polling.   *)
C8_PollOnlyWhenAsked ==
    /\ call.polls > 0
       => /\ call.response.kind = "response"
          /\ call.response.json.status = PyStr("OK")
          /\ Has(call.response.json, "feedbackId")
          /\ call.feedback_callback # PyNone
    /\ call.poller # "not_started" <=> call.polls > 0
    /\ Done(call) => call.poller # "POLLING"

\* a call that polled twice and is over
C8_Witness ==
    /\ Done(call) /\ call.polls = 2
    /\ call.poller \in {"RESOLVED", "TIMED_OUT", "FAILED"}

(* C9: once a call has returned or raised, no session it opened is open.   *)
C9_SessionsReleased == Done(call) => call.sessions = {}

\* an async call that opened two sessions and ended on a timeout
C9_Witness ==
    /\ Done(call) /\ call.opened = 2 /\ call.sessions = {}
    /\ call.exc.kind = "FeedbackActionTimeout"

(* C10: the validator accepts exactly None, the empty list, a list of      *)
(* plain strings and a list of mappings that each hold name and url: a     *)
(* call with key, message and password set ends in its validation if and   *)
(* only if its actions are none of these.                                  *)
C10_AcceptsExactlyWellFormed ==
    (call.pc # "idle" /\ ArgsSet(call))
    => (Rejected(call) <=> ~WellFormed(call.actions))

\* a list with a string after a complete mapping is rejected
C10_Witness ==
    /\ Rejected(call) /\ ArgsSet(call)
    /\ call.actions.t = "list" /\ Len(call.actions.v) = 2
    /\ call.actions.v[1].t = "dict" /\ call.actions.v[2].t = "str"
    /\ {"name", "url"} \subseteq DOMAIN call.actions.v[1].v


\* the payload has been built
Built(c) == c.payload # PyNone

(* C11: a payload built with a password comes with exactly one IV drawn;   *)
(* it holds encrypted = "true" and that IV in hex, msg and, when a title   *)
(* is given, title are the ciphertexts of message and title under the key  *)
(* derived from password and salt and under that same IV, no field holds   *)
(* the plaintext message or title, and event is carried as given.  A       *)
(* payload built without a password holds msg as given and neither         *)
(* encrypted nor iv, and no IV is drawn.                                   *)
C11_PayloadFields ==
    Built(call) =>
      LET p == call.payload.v
          k == GenerateEncryptionKey(call.password, call.salt)
      IN  IF Truthy(call.password)
          THEN /\ call.ivs = 1
               /\ Has(p, "encrypted") /\ p.encrypted = PyStr("true")
               /\ \E iv \in IVs :
                    /\ Has(p, "iv") /\ p.iv = IvHex(iv)
                    /\ p.msg = Encrypt(k, iv, call.message)
                    /\ Truthy(call.title)
                       => Has(p, "title") /\ p.title = Encrypt(k, iv, call.title)
               /\ ~Truthy(call.title) => ~Has(p, "title")
               /\ \A f \in DOMAIN p :
                    /\ p[f] # call.message
                    /\ Truthy(call.title) => p[f] # call.title
               /\ Truthy(call.event) => Has(p, "event") /\ p.event = call.event
               /\ ~Truthy(call.event) => ~Has(p, "event")
          ELSE /\ call.ivs = 0
               /\ p.msg = call.message
               /\ ~Has(p, "encrypted") /\ ~Has(p, "iv")

\* an encrypted payload with a title and an event
C11_Witness ==
    /\ Built(call) /\ Truthy(call.password)
    /\ Truthy(call.title) /\ Truthy(call.event)
    /\ call.payload.v.iv = IvHex("iv2")

---------------------------------------------------------------------------
\* the exception's message holds the feedback id
CarriesFeedbackId(c) ==
    \E i \in 1..Len(c.exc.args) : c.exc.args[i] = c.feedback_id.v

(* C12: both failure exits of the poller carry the feedback id: the        *)
(* message of a FeedbackActionTimeout and the message of a                 *)
(* FeedbackActionError name the feedbackId that was being polled.          *)
C12_FailureCarriesId ==
    call.exc.kind \in {"FeedbackActionTimeout", "FeedbackActionError"}
      => CarriesFeedbackId(call)

(* C13: when the GET of a poll itself fails (the feedback endpoint cannot  *)
(* be reached) the poller ends FAILED with FeedbackActionError and with no *)
(* other kind of error.                                                    *)
C13_UnreachableIsFeedbackActionError ==
    (call.poller # "not_started" /\ call.resp = TransportError)
      => call.poller = "FAILED" /\ call.exc.kind = "FeedbackActionError"

\* a poll response that reports success and holds no action_selected key
AbsentAction(r) ==
    /\ r.kind = "response"
    /\ r.status_code < 400
    /\ Truthy(r.json.success)
    /\ ~Has(r.json, "action_selected")

(* C14: a poll response with success = true and no action_selected key is  *)
(* taken as pending: the poller checks the timeout and then sleeps and     *)
(* polls again, or raises FeedbackActionTimeout; it raises no other error  *)
(* and does not invoke the callback.                                       *)
C14_AbsentActionIsPending ==
    (call.poller # "not_started" /\ AbsentAction(call.resp))
      => /\ call.callbacks = << >>
         /\ \/ call.poller = "POLLING" /\ call.exc = NoExc
            \/ call.poller = "TIMED_OUT" /\ call.exc.kind = "FeedbackActionTimeout"

(* C15: with a falsy feedback_callback_timeout (0 or None) the poller      *)
(* never raises FeedbackActionTimeout, after a pending response it goes on *)
(* sleeping and polling, and it ends only by resolution (the callback) or  *)
(* by FeedbackActionError.                                                 *)
C15_TimeoutDisabled ==
    (call.poller # "not_started" /\ ~Truthy(call.feedback_callback_timeout))
      => /\ call.exc.kind # "FeedbackActionTimeout"
         /\ Pending(call.resp) => call.poller = "POLLING"
         /\ call.poller # "POLLING"
            => \/ call.poller = "RESOLVED" /\ Len(call.callbacks) = 1
               \/ call.poller = "FAILED" /\ call.exc.kind = "FeedbackActionError"

(* C16: in every entry point the POST to /send runs under the timeout of   *)
(* DEFAULT_TIMEOUT seconds: a POST still waiting for its response has      *)
(* waited less than that, and a POST that got no response within that time *)
(* has ended the call with a transport error, in the async variants as in  *)
(* the blocking ones.                                                      *)
C16_PostTimesOut ==
    /\ call.pc = "await_post" => call.waited < DEFAULT_TIMEOUT
    /\ call.waited >= DEFAULT_TIMEOUT
       => Done(call) /\ ErrorKind(call.exc) = "TransportError"

---------------------------------------------------------------------------
\* the salt that counts: the one supplied, the legacy constant for none
EffectiveSalt(salt) == IF salt = PyNone \/ salt = PyStr("") THEN SALT ELSE salt.v

(* C17: the derived key is a function of the password concatenated with    *)
(* the effective salt (the salt supplied, the legacy constant when none    *)
(* is): it is made of the digest of that text, every password and salt     *)
(* with the same concatenation give the same key, it is 16 bytes long, and *)
(* deriving with no salt gives the key derived with the legacy constant    *)
(* passed as the salt.                                                     *)
C17_KeyDerivation ==
    call.pc = "key_derived" =>
      LET k == call.encryption_key
          text == call.password.v \o EffectiveSalt(call.salt)
      IN  /\ k.sha1 = text
          /\ k.bytes = 16
          /\ \A p \in KeyPasswords, s \in KeySalts :
               p.v \o EffectiveSalt(s) = text => GenerateEncryptionKey(p, s) = k
          /\ call.salt = PyNone
             => k = GenerateEncryptionKey(call.password, PyStr(SALT))

\* a key derived with a salt, which another password and salt also spell
C17_Witness ==
    /\ call.pc = "key_derived"
    /\ call.password = PyStr("a") /\ call.salt = PyStr("ab")
    /\ GenerateEncryptionKey(PyStr("aa"), PyStr("b")) = call.encryption_key

---------------------------------------------------------------------------
(* C18: every actions argument that the validator rejects is rejected with *)
(* ValueError and with no other kind of error, a list whose first element  *)
(* is not a string and which holds an element that is no mapping included. *)
C18_RejectedWithValueError ==
    (call.pc # "idle" /\ ArgsSet(call) /\ ~WellFormed(call.actions))
      => Done(call) /\ call.exc.kind = "ValueError"

---------------------------------------------------------------------------
(* C19: with a truthy timeout and every GET answered, every run of the     *)
(* poller comes to rest in RESOLVED, TIMED_OUT or FAILED.  A run that has  *)
(* ended takes no further step, so the claim asks of every ended run that  *)
(* it ended in one of the three.                                           *)
C19_EndsResolvedTimedOutOrFailed ==
    (/\ call.poller # "not_started"
     /\ Truthy(call.feedback_callback_timeout)
     /\ call.resp.kind # "error"
     /\ Done(call))
      => call.poller \in {"RESOLVED", "TIMED_OUT", "FAILED"}

---------------------------------------------------------------------------
\* the step raises FeedbackActionTimeout
RaisesTimeout ==
    /\ call.exc.kind # "FeedbackActionTimeout"
    /\ call'.exc.kind = "FeedbackActionTimeout"

\* the poller handles a response when the timeout has already passed
PastTimeout(c) ==
    /\ Truthy(c.feedback_callback_timeout)
    /\ c.now > c.start + c.feedback_callback_timeout.v

(* C20: the timeout is checked, not preempted.  FeedbackActionTimeout is   *)
(* raised only by the step that handles a pending response, with no sleep  *)
(* and no GET begun after that response, and never by the end of a sleep;  *)
(* a response with a truthy action_selected handled past the timeout still *)
(* invokes the callback once and the call returns normally; and when the   *)
(* timeout is raised, the time past start + timeout is at most the last    *)
(* sleep plus the longest time one GET takes.                              *)
C20_CheckedNotPreempted ==
    /\ [][RaisesTimeout
          => /\ call.pc = "requesting"
             /\ Pending(call'.resp)
             /\ call'.sleeps = call.sleeps /\ call'.polls = call.polls
             /\ Done(call')]_vars
    /\ []((Resolving(call.resp) /\ PastTimeout(call))
          => /\ Len(call.callbacks) = 1
             /\ call.poller = "RESOLVED"
             /\ ReturnedNormally(call))
    /\ [](call.exc.kind = "FeedbackActionTimeout"
          => call.now - (call.start + call.feedback_callback_timeout.v)
               <= call.sleep + MaxLatency)

\* an action selected is reported after the timeout has passed
C20_Witness ==
    /\ Resolving(call.resp) /\ PastTimeout(call)
    /\ call.poller = "RESOLVED" /\ ReturnedNormally(call)
    /\ call.sleeps > 0

===========================================================================
